---- MODULE Spec2Model ----
(***************************************************************************)
(* Model of generate-jira-comment.py: the provider-fallback pipeline that  *)
(* turns commit metadata into a Jira comment.                              *)
(*                                                                         *)
(* Texts are sequences of one-character strings, so that startswith, the   *)
(* substring test, lower(), strip(), split('\n') and '\n'.join() are       *)
(* computed as Python computes them.                                       *)
(***************************************************************************)
EXTENDS Naturals, Integers, Sequences, FiniteSets, TLC

VARIABLES
  pc,            \* position of the run of main()
  input,         \* what main() was started with: CLI fields or a JSON document
  environ,       \* environment of the process: env variables, installed tools
  commit_info,   \* main(): the commit_info dict, once built
  prompt,        \* generate_comment(): the rendered prompt (sequence of lines)
  openai_key,    \* generate_comment(): result of get_openai_api_key()
  claude_key,    \* generate_comment(): result of get_anthropic_api_key()
  invoked,       \* history: adapters called so far, in call order
  returned,      \* history: what each called adapter returned
  comment,       \* main(): the value generate_comment() returned
  stdout,        \* one entry per print() to sys.stdout
  stderr,        \* one entry per print() to sys.stderr (and the traceback)
  exit_status,   \* process exit status, -1 while running
  exc,           \* the uncaught exception that ended the run, if any
  text,          \* sanitizer study: the input text
  cleaned,       \* sanitizer study: clean_ai_response(text)
  recleaned      \* sanitizer study: clean_ai_response(cleaned)

vars == << pc, input, environ, commit_info, prompt, openai_key, claude_key,
           invoked, returned, comment, stdout, stderr, exit_status, exc,
           text, cleaned, recleaned >>

runVars == << input, environ, commit_info, prompt, openai_key, claude_key,
              invoked, returned, comment, stdout, stderr, exit_status, exc >>

cleanVars == << text, cleaned, recleaned >>

----------------------------------------------------------------------------
(* Bounds                                                                  *)

MaxLines == 3        \* lines per text in the sanitizer study
MaxFiles == 2        \* largest files_changed value

----------------------------------------------------------------------------
(* Python str primitives on character sequences                            *)

UpperAlpha ==
  << "A", "B", "C", "D", "E", "F", "G", "H", "I", "J", "K", "L", "M",
     "N", "O", "P", "Q", "R", "S", "T", "U", "V", "W", "X", "Y", "Z" >>

LowerAlpha ==
  << "a", "b", "c", "d", "e", "f", "g", "h", "i", "j", "k", "l", "m",
     "n", "o", "p", "q", "r", "s", "t", "u", "v", "w", "x", "y", "z" >>

Whitespace == { " ", "\t", "\n", "\r" }

LowerChar(c) ==
  IF \E i \in 1..26 : UpperAlpha[i] = c
    THEN LowerAlpha[CHOOSE i \in 1..26 : UpperAlpha[i] = c]
    ELSE c

\* str.lower()
lower(s) == [i \in 1..Len(s) |-> LowerChar(s[i])]

\* str.startswith(p)
startswith(s, p) == Len(p) <= Len(s) /\ SubSeq(s, 1, Len(p)) = p

\* p in s
contains(s, p) ==
  \E i \in 1..(Len(s) + 1) :
     i + Len(p) - 1 <= Len(s) /\ SubSeq(s, i, i + Len(p) - 1) = p

RECURSIVE lstrip(_)
lstrip(s) ==
  IF s # << >> /\ Head(s) \in Whitespace THEN lstrip(Tail(s)) ELSE s

RECURSIVE rstrip(_)
rstrip(s) ==
  IF s # << >> /\ s[Len(s)] \in Whitespace
    THEN rstrip(SubSeq(s, 1, Len(s) - 1))
    ELSE s

\* str.strip()
strip(s) == rstrip(lstrip(s))

\* str.split('\n'): "" gives [""], "a\n" gives ["a", ""]
RECURSIVE split(_)
split(s) ==
  IF \E i \in 1..Len(s) : s[i] = "\n"
    THEN LET k == CHOOSE i \in 1..Len(s) :
                     s[i] = "\n" /\ \A j \in 1..(i - 1) : s[j] # "\n"
         IN  << SubSeq(s, 1, k - 1) >> \o split(SubSeq(s, k + 1, Len(s)))
    ELSE << s >>

\* '\n'.join(lines)
RECURSIVE join(_)
join(lines) ==
  IF lines = << >> THEN << >>
  ELSE IF Len(lines) = 1 THEN lines[1]
  ELSE lines[1] \o << "\n" >> \o join(Tail(lines))

----------------------------------------------------------------------------
(* Response sanitizer                                                      *)

meta_patterns ==
  << <<"h", "e", "r", "e", "'", "s", " ", "t", "h", "e", " ", "c", "o", "m", "m", "e", "n", "t">>,
     <<"h", "e", "r", "e", " ", "i", "s", " ", "t", "h", "e", " ", "c", "o", "m", "m", "e", "n", "t">>,
     <<"t", "h", "e", " ", "c", "o", "m", "m", "e", "n", "t", " ", "i", "s">>,
     <<"i", "'", "v", "e", " ", "g", "e", "n", "e", "r", "a", "t", "e", "d">>,
     <<"i", "'", "v", "e", " ", "c", "r", "e", "a", "t", "e", "d">>,
     <<"i", "'", "v", "e", " ", "w", "r", "i", "t", "t", "e", "n">>,
     <<"g", "e", "n", "e", "r", "a", "t", "e", "d", " ", "c", "o", "m", "m", "e", "n", "t">>,
     <<"h", "e", "r", "e", "'", "s", " ", "w", "h", "a", "t", " ", "i">>,
     <<"l", "e", "t", " ", "m", "e", " ", "w", "r", "i", "t", "e">> >>

comment_starts ==
  << <<"h", "e", "y", " ", "t", "e", "a", "m">>,
     <<"h", "i", " ", "t", "e", "a", "m">>,
     <<"d", "o", "n", "e", " ", "w", "i", "t", "h">>,
     <<"j", "u", "s", "t", " ", "f", "i", "n", "i", "s", "h", "e", "d">>,
     <<"c", "o", "m", "p", "l", "e", "t", "e", "d">> >>

\* lower_text.startswith(pattern) for some pattern of meta_patterns
starts_with_meta(t) ==
  \E i \in 1..Len(meta_patterns) : startswith(lower(t), meta_patterns[i])

\* any(start in line_lower for start in [...]) with line_lower = line.lower().strip()
looks_like_start(line) ==
  \E i \in 1..Len(comment_starts) :
     contains(strip(lower(line)), comment_starts[i])

\* the scan loop: lines before the first comment-start line are dropped,
\* that line and every later line are kept
RECURSIVE scan_lines(_, _)
scan_lines(lines, found_start) ==
  IF lines = << >> THEN << >>
  ELSE IF found_start \/ looks_like_start(Head(lines))
    THEN << Head(lines) >> \o scan_lines(Tail(lines), TRUE)
    ELSE scan_lines(Tail(lines), FALSE)

\* the scan loop with the first line taken to be the lead-in and skipped
actual_comment_lines_skipfirst(t) == scan_lines(Tail(split(t)), FALSE)

actual_comment_lines(t) == scan_lines(split(t), FALSE)

clean_ai_response(t) ==
  IF t = << >> THEN t
  ELSE IF starts_with_meta(t)
    THEN IF actual_comment_lines(t) # << >>
           THEN join(actual_comment_lines(t))
           ELSE t
    ELSE t

\* the print_color calls clean_ai_response makes
clean_diagnostics(t) ==
  IF t # << >> /\ starts_with_meta(t)
    THEN IF actual_comment_lines(t) # << >>
           THEN << "meta_detected" >>
           ELSE << "meta_detected", "could_not_identify" >>
    ELSE << >>

----------------------------------------------------------------------------
(* Texts of the sanitizer study: up to MaxLines lines, each a lead-in      *)
(* followed by a body                                                      *)

LeadGenerated == <<"I", "'", "v", "e", " ", "g", "e", "n", "e", "r", "a", "t", "e", "d", ":", " ">>
LeadHeres == <<"H", "e", "r", "e", "'", "s", " ", "t", "h", "e", " ", "c", "o", "m", "m", "e", "n", "t">>
BodyHeyTeam == <<"H", "e", "y", " ", "t", "e", "a", "m", ",", " ", "f", "i", "x", "e", "d", " ", "t", "h", "e", " ", "b", "u", "g", ".">>
BodyDone == <<" ", "D", "o", "n", "e", " ", "w", "i", "t", "h", " ", "i", "t">>
BodyThanks == <<"T", "h", "a", "n", "k", "s">>

Leads == { << >>, LeadGenerated, LeadHeres }
Bodies == { << >>, BodyHeyTeam, BodyDone, BodyThanks }
StudyLines == { l \o b : l \in Leads, b \in Bodies }

StudyTexts ==
  { join(ls) : ls \in UNION { [1..n -> StudyLines] : n \in 1..MaxLines } }

----------------------------------------------------------------------------
(* Optional[str]                                                           *)

None == [some |-> FALSE, val |-> << >>]
Some(v) == [some |-> TRUE, val |-> v]

\* Python truth value of an Optional[str]: None and "" are false
Truthy(o) == o.some /\ o.val # << >>

----------------------------------------------------------------------------
(* Prompt builder                                                          *)

\* dict.get(key, default)
Get(d, k, default) == IF k \in DOMAIN d THEN d[k] ELSE default

\* one line of the prompt: the template's literal text, then the value the
\* f-string interpolates after it
Line(label, value) == [label |-> label, value |-> value]

\* line 224 rendered without its condition
ticket_line_unconditional(ticket_details) ==
  Line("- Ticket context: ", ticket_details)

\* line 224: {"- Ticket context: " + ticket_details if ticket_details else ""}
ticket_line(ticket_details) ==
  IF ticket_details # ""
    THEN Line("- Ticket context: ", ticket_details)
    ELSE Line("", "")

\* the template of lines 214-272; author and commit_date are read from the
\* dict (lines 206-207) and used nowhere in the template
build_natural_prompt(ci) ==
  LET commit_msg     == Get(ci, "message", "")
      commit_sha     == Get(ci, "sha", "")
      branch         == Get(ci, "branch", "")
      author         == Get(ci, "author", "")
      commit_date    == Get(ci, "date", "")
      commit_url     == Get(ci, "url", "")
      diff_summary   == Get(ci, "diff_summary", "")
      ticket_details == Get(ci, "ticket_details", "")
      files_changed  == Get(ci, "files_changed", 0)
  IN << Line("CRITICAL INSTRUCTION: Output ONLY the Jira comment text itself.", ""),
        Line("", ""),
        Line("Write an informal Jira comment update from a developer", ""),
        Line("", ""),
        Line("CONTEXT:", ""),
        Line("- Commit: ", commit_msg),
        Line("- SHA: ", commit_sha),
        Line("- Branch: ", branch),
        Line("- Files changed: ", ToString(files_changed)),
        Line("- Commit link: ", commit_url),
        ticket_line(ticket_details),
        Line("", ""),
        Line("CODE CHANGES:", ""),
        Line("", diff_summary),
        Line("", ""),
        Line("IMPORTANT STYLE GUIDELINES:", ""),
        Line("REQUIRED CONTENT (but write it naturally, not as sections):", ""),
        Line("EXAMPLE TONE (adapt to the actual commit):", ""),
        Line("Commit: ", commit_url),
        Line("To test this:", ""),
        Line("REMEMBER: Output ONLY the comment text.", "") >>

\* CommitInfo records of the prompt study: every string field empty or set,
\* files_changed in 0..MaxFiles, and documents that leave keys out
FieldValue ==
  [ message |-> "fix login bug", sha |-> "abc123", branch |-> "main",
    author |-> "dev", date |-> "2024-01-01", url |-> "https://example/c/abc123",
    diff_summary |-> "login.py | 3 +-", ticket_details |-> "PROJ-1 login fails" ]

StringKeys == DOMAIN FieldValue
AllKeys == StringKeys \cup { "files_changed" }

FullDicts ==
  { [k \in AllKeys |->
       IF k = "files_changed" THEN n
       ELSE IF k \in set THEN FieldValue[k] ELSE ""] :
    set \in SUBSET StringKeys, n \in 0..MaxFiles }

Restrict(d, keys) == [k \in keys |-> d[k]]

KeySets ==
  { AllKeys, AllKeys \ { "ticket_details" }, AllKeys \ { "url", "files_changed" }, { } }

StudyDicts == { Restrict(d, ks) : d \in FullDicts, ks \in KeySets }

----------------------------------------------------------------------------
(* Output streams                                                          *)

\* one write: a diagnostic message (diag names it) or a comment text
Out(d, t) == [diag |-> d, text |-> t]

\* print_color with the file=sys.stderr argument left out
print_color_stdout(st, message) ==
  [st EXCEPT !.out = Append(@, Out(message, << >>))]

\* print(f"{color}{message}{NC}", file=sys.stderr)
print_color(st, message) ==
  [st EXCEPT !.err = Append(@, Out(message, << >>))]

RECURSIVE print_colors(_, _)
print_colors(st, messages) ==
  IF messages = << >> THEN st
  ELSE print_colors(print_color(st, Head(messages)), Tail(messages))

\* print(comment)
print(st, t) == [st EXCEPT !.out = Append(@, Out("", t))]

\* the interpreter's report of an uncaught exception
traceback(st) == [st EXCEPT !.err = Append(@, Out("traceback", << >>))]

----------------------------------------------------------------------------
(* Credential resolvers                                                    *)

Unknown == [resolved |-> FALSE, some |-> FALSE, val |-> << >>]
Known(o) == [resolved |-> TRUE, some |-> o.some, val |-> o.val]

Returns(v) == [raised |-> "", value |-> v, diags |-> << >>]
ReturnsNone(diag) == [raised |-> "", value |-> None, diags |-> << diag >>]
Raises(e) == [raised |-> e, value |-> None, diags |-> << >>]

ApiKey == << "s", "k", "-", "1" >>

\* what subprocess.run(['security', ...], check=True) can do
KeychainLookups(installed) ==
  IF installed
    THEN { [kind |-> "nonzero", out |-> << >>],
           [kind |-> "ok", out |-> ApiKey \o << "\n" >>],
           [kind |-> "ok", out |-> << "\n" >>] }
    ELSE { [kind |-> "not_installed", out |-> << >>] }

\* env value first; then the keychain, where only CalledProcessError is caught
resolve_key(env_value, lookup) ==
  IF Truthy(env_value) THEN Returns(env_value)
  ELSE IF lookup.kind = "ok" THEN Returns(Some(strip(lookup.out)))
  ELSE IF lookup.kind = "nonzero" THEN Returns(None)
  ELSE Raises("FileNotFoundError")

get_openai_api_key(env, lookup) == resolve_key(env.OPENAI_API_KEY, lookup)

get_anthropic_api_key(env, lookup) == resolve_key(env.ANTHROPIC_API_KEY, lookup)

----------------------------------------------------------------------------
(* Provider adapters                                                       *)

RawTexts ==
  { << " ", "\n" >>,
    LeadGenerated \o BodyHeyTeam,
    join(<< LeadHeres, BodyHeyTeam >>) \o << "\n" >>,
    BodyThanks }

\* what requests.post(..., timeout=60) can do; content None is an envelope
\* without the expected text field
HttpOutcomes ==
  { [kind |-> k, status |-> 0, content |-> None] :
      k \in { "transport_error", "timeout" } }
  \cup { [kind |-> "response", status |-> 500, content |-> None] }
  \cup { [kind |-> "response", status |-> 200, content |-> c] :
           c \in { None } \cup { Some(t) : t \in RawTexts } }

\* "import requests" is the first statement, outside the try
generate_with_openai(requests_installed, resp) ==
  IF ~requests_installed THEN Raises("ModuleNotFoundError")
  ELSE IF resp.kind # "response" THEN ReturnsNone("openai_error")
  ELSE IF resp.status = 200
    THEN IF resp.content.some
           THEN Returns(Some(strip(resp.content.val)))
           ELSE ReturnsNone("openai_error")
    ELSE ReturnsNone("openai_api_error")

generate_with_claude(requests_installed, resp) ==
  IF ~requests_installed THEN Raises("ModuleNotFoundError")
  ELSE IF resp.kind # "response" THEN ReturnsNone("claude_error")
  ELSE IF resp.status = 200
    THEN IF resp.content.some
           THEN Returns(Some(strip(resp.content.val)))
           ELSE ReturnsNone("claude_error")
    ELSE ReturnsNone("claude_api_error")

\* which: what `which cursor-agent` does; path: whether one of the three
\* conventional paths is an executable file; run: how `cursor-agent chat` ends
CursorOutcomes ==
  [ which : { "found", "not_found", "error" }, path : BOOLEAN,
    run : { "exit", "timeout", "oserror" }, returncode : { 0, 1 },
    out : RawTexts ]

generate_with_cursor(o) ==
  IF o.which = "error" THEN ReturnsNone("cursor_error")
  ELSE IF o.which = "not_found" /\ ~o.path THEN ReturnsNone("cursor_not_found")
  ELSE IF o.run = "timeout" THEN ReturnsNone("cursor_timeout")
  ELSE IF o.run = "oserror" THEN ReturnsNone("cursor_error")
  ELSE IF o.returncode = 0 /\ strip(o.out) # << >>
    THEN Returns(Some(strip(o.out)))
    ELSE ReturnsNone("cursor_error")

----------------------------------------------------------------------------
(* main() and generate_comment(), one action per call they make            *)

Providers == << "openai", "claude", "cursor" >>
Adapters == { "generate_with_openai", "generate_with_claude", "generate_with_cursor" }
Resolvers == { "get_openai_api_key", "get_anthropic_api_key" }

NoCommitInfo == [type |-> "unset", fields |-> << >>]
NoException == [type |-> "", where |-> ""]

Streams == [out |-> stdout, err |-> stderr]

\* an exception nobody catches: traceback on stderr, exit status 1
Crash(st, type, where) ==
  /\ exc' = [type |-> type, where |-> where]
  /\ stdout' = traceback(st).out
  /\ stderr' = traceback(st).err
  /\ exit_status' = 1
  /\ pc' = "exited"

\* the except branch that reads the document as an empty object and goes on
read_json_input_lenient(inp) ==
  [failed |-> FALSE, value |-> [type |-> "dict", fields |-> << >>]]

\* open() and json.load() inside try/except Exception
read_json_input(inp) ==
  IF inp.doc \in { "unreadable", "invalid_json" }
    THEN [failed |-> TRUE, value |-> NoCommitInfo]
  ELSE IF inp.doc = "array"
    THEN [failed |-> FALSE, value |-> [type |-> "list", fields |-> << >>]]
  ELSE [failed |-> FALSE, value |-> [type |-> "dict", fields |-> inp.fields]]

\* "if openai_key is not None:" in place of "if openai_key:"
key_present_not_none(k) == k.some

\* "if openai_key:" and "if claude_key:"
key_present(k) == Truthy(k)

\* "if comment:" never returning, so that the next provider is always tried
returns_comment_never(c) == FALSE

\* "if comment: return clean_ai_response(comment)"
returns_comment(c) == Truthy(c)

\* lines 381-402: build the commit_info dict
main_read_input ==
  /\ pc = "main"
  /\ IF input.mode = "json" /\ read_json_input(input).failed
       THEN /\ stderr' = print_color(Streams, "failed_to_read_json").err
            /\ stdout' = print_color(Streams, "failed_to_read_json").out
            /\ exit_status' = 1
            /\ pc' = "exited"
            /\ UNCHANGED commit_info
       ELSE /\ commit_info' = IF input.mode = "json"
                                THEN read_json_input(input).value
                                ELSE [type |-> "dict", fields |-> input.fields]
            /\ pc' = "generate_comment"
            /\ UNCHANGED << stdout, stderr, exit_status >>
  /\ UNCHANGED << input, environ, prompt, openai_key, claude_key, invoked,
                  returned, comment, exc >>
  /\ UNCHANGED cleanVars

\* line 332: prompt = build_natural_prompt(commit_info); .get on a value that
\* is no dict raises AttributeError
generate_comment_build ==
  /\ pc = "generate_comment"
  /\ IF commit_info.type = "dict"
       THEN /\ prompt' = build_natural_prompt(commit_info.fields)
            /\ pc' = "openai_key"
            /\ UNCHANGED << stdout, stderr, exit_status, exc >>
       ELSE /\ Crash(Streams, "AttributeError", "build_natural_prompt")
            /\ UNCHANGED prompt
  /\ UNCHANGED << input, environ, commit_info, openai_key, claude_key, invoked,
                  returned, comment >>
  /\ UNCHANGED cleanVars

\* lines 335-336: openai_key = get_openai_api_key(); if openai_key:
generate_comment_openai_key ==
  /\ pc = "openai_key"
  /\ \E lookup \in KeychainLookups(environ.security) :
       LET r == get_openai_api_key(environ, lookup) IN
       IF r.raised # ""
         THEN /\ Crash(Streams, r.raised, "get_openai_api_key")
              /\ UNCHANGED openai_key
         ELSE /\ openai_key' = Known(r.value)
              /\ pc' = IF key_present(r.value) THEN "openai" ELSE "claude_key"
              /\ UNCHANGED << stdout, stderr, exit_status, exc >>
  /\ UNCHANGED << input, environ, commit_info, prompt, claude_key, invoked,
                  returned, comment >>
  /\ UNCHANGED cleanVars

\* what generate_comment does with an adapter's result r: return the cleaned
\* comment, or go on at pc value `next`, printing `onward` on the way; after
\* the last provider it returns None (line 361)
AfterAdapter(started, name, r, next, onward) ==
  LET st == print_colors(print_colors(started, r.diags), onward) IN
  /\ returned' = [returned EXCEPT ![name] = Known(r.value)]
  /\ IF returns_comment(r.value)
       THEN LET done == print_colors(print_colors(started, r.diags),
                                     clean_diagnostics(r.value.val)) IN
            /\ comment' = Known(Some(clean_ai_response(r.value.val)))
            /\ pc' = "output"
            /\ stdout' = done.out
            /\ stderr' = done.err
       ELSE /\ pc' = next
            /\ stdout' = st.out
            /\ stderr' = st.err
            /\ comment' = IF next = "output" THEN Known(None) ELSE comment
  /\ UNCHANGED << exit_status, exc >>

\* lines 337-340
generate_comment_openai ==
  /\ pc = "openai"
  /\ invoked' = Append(invoked, "openai")
  /\ \E resp \in HttpOutcomes :
       LET started == print_color(Streams, "generating_openai")
           r == generate_with_openai(environ.requests, resp) IN
       IF r.raised # ""
         THEN /\ Crash(started, r.raised, "generate_with_openai")
              /\ UNCHANGED << returned, comment >>
         ELSE AfterAdapter(started, "openai", r, "claude_key", << >>)
  /\ UNCHANGED << input, environ, commit_info, prompt, openai_key, claude_key >>
  /\ UNCHANGED cleanVars

\* lines 343-344: claude_key = get_anthropic_api_key(); if claude_key:
generate_comment_claude_key ==
  /\ pc = "claude_key"
  /\ \E lookup \in KeychainLookups(environ.security) :
       LET r == get_anthropic_api_key(environ, lookup) IN
       IF r.raised # ""
         THEN /\ Crash(Streams, r.raised, "get_anthropic_api_key")
              /\ UNCHANGED claude_key
         ELSE /\ claude_key' = Known(r.value)
              /\ pc' = IF key_present(r.value) THEN "claude" ELSE "cursor"
              /\ UNCHANGED << stdout, stderr, exit_status, exc >>
  /\ UNCHANGED << input, environ, commit_info, prompt, openai_key, invoked,
                  returned, comment >>
  /\ UNCHANGED cleanVars

\* lines 345-348
generate_comment_claude ==
  /\ pc = "claude"
  /\ invoked' = Append(invoked, "claude")
  /\ \E resp \in HttpOutcomes :
       LET started == print_color(Streams, "generating_claude")
           r == generate_with_claude(environ.requests, resp) IN
       IF r.raised # ""
         THEN /\ Crash(started, r.raised, "generate_with_claude")
              /\ UNCHANGED << returned, comment >>
         ELSE AfterAdapter(started, "claude", r, "cursor", << >>)
  /\ UNCHANGED << input, environ, commit_info, prompt, openai_key, claude_key >>
  /\ UNCHANGED cleanVars

\* lines 356-360
Guidance ==
  << "no_provider_available", "options", "set_OPENAI_API_KEY",
     "set_ANTHROPIC_API_KEY", "install_cursor_agent" >>

\* lines 351-361; generate_with_cursor catches every Exception
generate_comment_cursor ==
  /\ pc = "cursor"
  /\ invoked' = Append(invoked, "cursor")
  /\ \E o \in CursorOutcomes :
       LET started == print_color(Streams, "trying_cursor")
           r == generate_with_cursor(o) IN
       AfterAdapter(started, "cursor", r, "output", Guidance)
  /\ UNCHANGED << input, environ, commit_info, prompt, openai_key, claude_key >>
  /\ UNCHANGED cleanVars

\* lines 407-413
main_output ==
  /\ pc = "output"
  /\ IF Truthy(comment)
       THEN /\ stdout' = print(Streams, comment.val).out
            /\ stderr' = print(Streams, comment.val).err
            /\ exit_status' = 0
       ELSE /\ stdout' = print_color(Streams, "failed_to_generate").out
            /\ stderr' = print_color(Streams, "failed_to_generate").err
            /\ exit_status' = 1
  /\ pc' = "exited"
  /\ UNCHANGED << input, environ, commit_info, prompt, openai_key, claude_key,
                  invoked, returned, comment, exc >>
  /\ UNCHANGED cleanVars

----------------------------------------------------------------------------
(* Specification of a run of main()                                        *)

FullInfo == [k \in AllKeys |-> IF k = "files_changed" THEN MaxFiles ELSE FieldValue[k]]
BareInfo ==
  [k \in AllKeys |->
     IF k = "files_changed" THEN 0
     ELSE IF k \in { "url", "diff_summary", "ticket_details" } THEN ""
     ELSE FieldValue[k]]

Inputs ==
  { [mode |-> "args", doc |-> "none", fields |-> d] : d \in { FullInfo, BareInfo } }
  \cup { [mode |-> "json", doc |-> k, fields |-> << >>] :
           k \in { "unreadable", "invalid_json", "array" } }
  \cup { [mode |-> "json", doc |-> "object", fields |-> d] :
           d \in { FullInfo, Restrict(FullInfo, { "message", "sha" }) } }

EnvValues == { None, Some(<< >>), Some(ApiKey) }

Environs ==
  [ OPENAI_API_KEY : EnvValues, ANTHROPIC_API_KEY : EnvValues,
    security : BOOLEAN, requests : BOOLEAN ]

RunIdle ==
  /\ commit_info = NoCommitInfo
  /\ prompt = << >>
  /\ openai_key = Unknown
  /\ claude_key = Unknown
  /\ invoked = << >>
  /\ returned = [p \in { "openai", "claude", "cursor" } |-> Unknown]
  /\ comment = Unknown
  /\ stdout = << >>
  /\ stderr = << >>
  /\ exit_status = -1
  /\ exc = NoException

CleanIdle ==
  /\ text = << >>
  /\ cleaned = Unknown
  /\ recleaned = Unknown

Init ==
  /\ pc = "main"
  /\ input \in Inputs
  /\ environ \in Environs
  /\ RunIdle
  /\ CleanIdle

Next ==
  \/ main_read_input
  \/ generate_comment_build
  \/ generate_comment_openai_key
  \/ generate_comment_openai
  \/ generate_comment_claude_key
  \/ generate_comment_claude
  \/ generate_comment_cursor
  \/ main_output

Spec == Init /\ [][Next]_vars

----------------------------------------------------------------------------
(* Specification of the sanitizer study: clean_ai_response applied to a    *)
(* text, then to its own result                                            *)

clean_once ==
  /\ pc = "clean_study"
  /\ cleaned' = Known(Some(clean_ai_response(text)))
  /\ pc' = "cleaned"
  /\ UNCHANGED << text, recleaned >>
  /\ UNCHANGED runVars

clean_twice ==
  /\ pc = "cleaned"
  /\ recleaned' = Known(Some(clean_ai_response(cleaned.val)))
  /\ pc' = "recleaned"
  /\ UNCHANGED << text, cleaned >>
  /\ UNCHANGED runVars

InitClean ==
  /\ pc = "clean_study"
  /\ input = [mode |-> "args", doc |-> "none", fields |-> BareInfo]
  /\ environ = [OPENAI_API_KEY |-> None, ANTHROPIC_API_KEY |-> None,
                security |-> FALSE, requests |-> FALSE]
  /\ RunIdle
  /\ text \in StudyTexts
  /\ cleaned = Unknown
  /\ recleaned = Unknown

NextClean == clean_once \/ clean_twice

SpecClean == InitClean /\ [][NextClean]_vars

----------------------------------------------------------------------------
(* Specification of the prompt study: build_natural_prompt applied to a    *)
(* CommitInfo                                                              *)

build_study ==
  /\ pc = "build_study"
  /\ prompt' = build_natural_prompt(commit_info.fields)
  /\ pc' = "built"
  /\ UNCHANGED << input, environ, commit_info, openai_key, claude_key, invoked,
                  returned, comment, stdout, stderr, exit_status, exc >>
  /\ UNCHANGED cleanVars

InitBuild ==
  /\ pc = "build_study"
  /\ input = [mode |-> "args", doc |-> "none", fields |-> BareInfo]
  /\ environ = [OPENAI_API_KEY |-> None, ANTHROPIC_API_KEY |-> None,
                security |-> FALSE, requests |-> FALSE]
  /\ commit_info \in { [type |-> "dict", fields |-> d] : d \in StudyDicts }
  /\ prompt = << >>
  /\ openai_key = Unknown
  /\ claude_key = Unknown
  /\ invoked = << >>
  /\ returned = [p \in { "openai", "claude", "cursor" } |-> Unknown]
  /\ comment = Unknown
  /\ stdout = << >>
  /\ stderr = << >>
  /\ exit_status = -1
  /\ exc = NoException
  /\ CleanIdle

NextBuild == build_study

SpecBuild == InitBuild /\ [][NextBuild]_vars

----------------------------------------------------------------------------
(* Claims                                                                  *)

Rank(p) == CHOOSE i \in 1..Len(Providers) : Providers[i] = p
WasInvoked(p) == \E i \in 1..Len(invoked) : invoked[i] = p
Skipped(key) == key.resolved /\ ~Truthy(key)
OnStderr(message) == \E i \in 1..Len(stderr) : stderr[i].diag = message
HasLabel(label) == \E i \in 1..Len(prompt) : prompt[i].label = label
HasLine(label, value) == \E i \in 1..Len(prompt) : prompt[i] = Line(label, value)
Embedded(value) == \E i \in 1..Len(prompt) : prompt[i].value = value
Field(k) == Get(commit_info.fields, k, "")

\* the text of the spec's scenario: "I've generated: Hey team, fixed the bug."
ScenarioText == LeadGenerated \o BodyHeyTeam

\* a document main() cannot turn into a commit_info dict
Malformed ==
  input.mode = "json" /\ input.doc \in { "unreadable", "invalid_json", "array" }

\* C1: adapters are invoked only in the order OpenAI, Claude, Cursor Agent,
\* each at most once; an adapter that returned a non-empty text is the last
\* one invoked, and generate_comment returns that text sanitized.
C1_OrderedFirstSuccess ==
  /\ \A i, j \in 1..Len(invoked) :
       i < j => Rank(invoked[i]) < Rank(invoked[j])
  /\ \A i \in 1..Len(invoked) :
       Truthy(returned[invoked[i]]) =>
         /\ i = Len(invoked)
         /\ pc \in { "output", "exited" }
         /\ comment = Known(Some(clean_ai_response(returned[invoked[i]].val)))

\* C1 witness: OpenAI was tried and failed, Claude then succeeded and the
\* run ended without Cursor Agent being tried.
C1_Witness ==
  /\ pc = "exited"
  /\ invoked = << "openai", "claude" >>
  /\ ~Truthy(returned["openai"])
  /\ Truthy(returned["claude"])
  /\ exit_status = 0

\* C2: a hosted provider whose credential resolved to None or "" is never
\* invoked; the run goes on to the next provider instead of failing there.
C2_AbsentCredentialSkipped ==
  /\ Skipped(openai_key) =>
       /\ ~WasInvoked("openai")
       /\ pc # "openai"
       /\ pc = "claude_key" \/ claude_key.resolved
  /\ Skipped(claude_key) =>
       /\ ~WasInvoked("claude")
       /\ pc # "claude"
       /\ pc = "cursor" \/ WasInvoked("cursor")

\* C2 witness: both hosted providers were skipped, one of them for an empty
\* string credential, and Cursor Agent produced the comment.
C2_Witness ==
  /\ pc = "exited"
  /\ Skipped(openai_key) /\ openai_key.some
  /\ Skipped(claude_key)
  /\ invoked = << "cursor" >>
  /\ exit_status = 0

\* C3: no adapter raises past its boundary: every adapter that was invoked
\* returned a result, so no run ends with an exception out of an adapter.
C3_NoAdapterRaises ==
  /\ exc.where \notin Adapters
  /\ \A p \in { "openai", "claude", "cursor" } :
       WasInvoked(p) => returned[p].resolved

\* C4: no credential resolver raises: with the environment variable unset,
\* every failure of the secret-store lookup is returned as absent.
C4_NoResolverRaises == exc.where \notin Resolvers

\* C5: when OpenAI yields absence and Claude yields "I've generated: Hey
\* team, fixed the bug.", the returned comment begins with "Hey team, fixed
\* the bug." and Cursor Agent is not invoked.
C5_LeadInStripped ==
  ( /\ returned["openai"].resolved
    /\ ~Truthy(returned["openai"])
    /\ returned["claude"] = Known(Some(ScenarioText)) ) =>
      /\ comment.resolved
      /\ startswith(comment.val, BodyHeyTeam)
      /\ ~WasInvoked("cursor")

C7_CleanIdempotent ==
  pc = "recleaned" => recleaned.val = cleaned.val

\* C7 witness: cleaning dropped lines, and what it kept still starts with a
\* meta-commentary phrase.
C7_Witness ==
  /\ pc = "recleaned"
  /\ cleaned.val # text
  /\ starts_with_meta(cleaned.val)

\* C8 as stated: no labelled line for ticket_details, url or diff_summary
\* when that field is empty, and the "Files changed" line is present.
C8_NoLineForEmptyOptional ==
  pc = "built" =>
    /\ Field("ticket_details") = "" => ~HasLabel("- Ticket context: ")
    /\ Field("url") = "" => ~HasLabel("- Commit link: ")
    /\ Field("diff_summary") = "" => ~HasLabel("CODE CHANGES:")
    /\ HasLine("- Files changed: ", ToString(Get(commit_info.fields, "files_changed", 0)))

\* C8 amended: the "Ticket context" line is present exactly when
\* ticket_details is non-empty and "Files changed: <n>" is always present;
\* the "Commit link" line and the "CODE CHANGES" section are always present,
\* also when url or diff_summary is empty.
C8_OnlyTicketLineConditional ==
  pc = "built" =>
    /\ Field("ticket_details") = "" => ~HasLabel("- Ticket context: ")
    /\ Field("ticket_details") # "" =>
         HasLine("- Ticket context: ", Field("ticket_details"))
    /\ HasLine("- Files changed: ", ToString(Get(commit_info.fields, "files_changed", 0)))
    /\ HasLine("- Commit link: ", Field("url"))
    /\ HasLabel("CODE CHANGES:")

\* C8 witness: a prompt built from a CommitInfo whose ticket_details, url and
\* diff_summary are all empty.
C8_Witness ==
  /\ pc = "built"
  /\ Field("ticket_details") = ""
  /\ Field("url") = ""
  /\ Field("diff_summary") = ""
  /\ Field("message") # ""
  /\ Get(commit_info.fields, "files_changed", 0) > 0
  /\ HasLabel("- Files changed: ")

\* C9: every non-empty field among message, sha, branch, author, date, url,
\* diff_summary and ticket_details, and files_changed, appears in the prompt.
C9_EveryFieldEmbedded ==
  pc = "built" =>
    /\ \A k \in StringKeys : Field(k) # "" => Embedded(Field(k))
    /\ Embedded(ToString(Get(commit_info.fields, "files_changed", 0)))

====
